---- MODULE Spec2Model ----
(***************************************************************************)
(* CryptoLongEntryBot (crypto_alert_bot.py): the registry of per-user      *)
(* target levels, the front-end commands that mutate it and the price      *)
(* monitoring loop that scans it.  The program is a set of asyncio tasks   *)
(* on one event loop: a task runs without interruption from one await to   *)
(* the next, so every action below is the code between two awaits.         *)
(***************************************************************************)
EXTENDS Integers, Sequences, FiniteSets, TLC

\* Number of TargetLevel objects the front-end may create in one behaviour.
MaxLevels == 2
\* Number of /add commands that may be suspended in their price lookup at once.
MaxAdds == 2
\* Number of /add commands that may be suspended in sending their answer at once.
MaxReplies == 1

Users == {1, 2}
Symbols == {"A", "B"}
\* Symbols as a user may type them in a command.
TypedSymbols == {"a", "A", "B"}
\* Prices the price source may report.
Prices == {1, 2}
\* The price argument of /add as a user may type it.
TypedPrices == {"1", "2", "-1", "abc"}
\* get_binance_price returns None when the lookup fails.
NoPrice == 0
LevelIds == 1..MaxLevels

VARIABLES
    user_levels,    \* self.user_levels: sequence (dict order) of [uid, levels];
                    \* levels is the inner dict, a sequence of TargetLevel
    monitoring,     \* self.monitoring
    clock,          \* the next created_at (datetime.now() of the next TargetLevel)
    adds,           \* the calls of add_level_command that are suspended: in
                    \* `await get_binance_price` ("lookup"), in the await that
                    \* sends the warning ("warning") or in the await that sends
                    \* the answer ("answer"), with the answer being sent
    lst,            \* list_levels_command: where it is, and its dict iterator
    mon_pc,         \* price_monitoring_loop: "created", "price" (awaiting the
                    \* lookup), "alert" (awaiting send_message), "sleep300", "sleep60"
    it_used,        \* outer dict iterator: size of the dict when it was created
    it_pos,         \* outer dict iterator: entries consumed
    cur_user,       \* check_all_levels: user_id
    snap,           \* check_all_levels: list(user_levels.items()) of cur_user
    snap_i,         \* check_all_levels: position of (symbol, level) in snap
    current_price,  \* check_all_levels: current_price (last lookup result)
    last_error,     \* the exception price_monitoring_loop caught last
    running,        \* calls of check_all_levels that have not returned or raised
    \* History variables: they record what the program did and steer nothing.
    alerts,         \* per level: calls of send_target_hit_alert
    sent,           \* per level: what send_target_hit_alert logged
    fate,           \* per level: how it left the registry
    held,           \* the registry held `level` when the trigger was computed
    tick_failed,    \* a lookup or a send failed during the current scan
    skipped,        \* levels whose last lookup was unavailable
    due             \* levels skipped in the previous scan, not looked up since

vars == <<user_levels, monitoring, clock, adds, mon_pc, it_used, it_pos, cur_user,
          snap, snap_i, current_price, last_error, alerts, sent, fate, held,
          tick_failed, skipped, due, running, lst>>

mon_vars == <<mon_pc, it_used, it_pos, cur_user, snap, snap_i, current_price,
              last_error, running>>
ghost_tick == <<tick_failed, skipped, due, held>>

----------------------------------------------------------------------------
\* TargetLevel(symbol, target_price); created_at is set at construction.
TargetLevel(symbol, target_price, now) ==
    [symbol |-> symbol, target_price |-> target_price, created_at |-> now]

\* args[0].upper()
Upper(typed) == IF typed = "a" THEN "A" ELSE typed

\* float(args[1]) raises ValueError on text that is no number; it accepts
\* a negative number.
FloatOk(arg) == arg \in {"1", "2", "-1"}

Float(arg) == CASE arg = "1" -> 1 [] arg = "2" -> 2 [] arg = "-1" -> -1

\* context.args of /add: one or two words
AddArgs ==
    {<<typed>> : typed \in TypedSymbols}
        \cup {<<typed, price>> : typed \in TypedSymbols, price \in TypedPrices}

\* an answer of add_level_command: "usage" (not two arguments),
\* "invalid_price" (the answer of `except ValueError`), "invalid_symbol"
\* (no current price), "added", "updated", or "error" (the answer of
\* `except Exception`); for
\* "added" and "updated", whether the warning "target is above or equal to
\* current price" came first, and old_price of an update; "none" while the
\* command has nothing to answer yet
Answer(kind, old_price, warned) ==
    [kind |-> kind, old_price |-> old_price, warned |-> warned]

\* user_id in self.user_levels
HasUser(d, u) == \E i \in 1..Len(d) : d[i].uid = u

\* self.user_levels[user_id]
LevelsOf(d, u) ==
    IF HasUser(d, u)
    THEN d[CHOOSE i \in 1..Len(d) : d[i].uid = u].levels
    ELSE <<>>

SetDefault_no(d, u) == d

\* if user_id not in self.user_levels: self.user_levels[user_id] = {}
SetDefault(d, u) ==
    IF HasUser(d, u) THEN d ELSE Append(d, [uid |-> u, levels |-> <<>>])

\* symbol in self.user_levels[user_id]
HasSym(lv, s) == \E i \in 1..Len(lv) : lv[i].symbol = s

\* self.user_levels[user_id][symbol]
Lookup(lv, s) == lv[CHOOSE i \in 1..Len(lv) : lv[i].symbol = s]

Store_append(lv, level) == Append(lv, level)

\* dict item assignment: an existing key keeps its place, a new key is appended
Store(lv, level) ==
    IF HasSym(lv, level.symbol)
    THEN [i \in 1..Len(lv) |-> IF lv[i].symbol = level.symbol THEN level ELSE lv[i]]
    ELSE Append(lv, level)

Del_keep(lv, s) == lv

Del_clear(lv, s) == <<>>

\* dict.pop(symbol) / del dict[symbol] of a key that is present
Del(lv, s) == SelectSeq(lv, LAMBDA e : e.symbol # s)

\* the outer dict with user u's inner dict replaced by lv
WithLevels(d, u, lv) ==
    [i \in 1..Len(d) |-> IF d[i].uid = u THEN [d[i] EXCEPT !.levels = lv] ELSE d[i]]

\* created_at of every level the registry holds
Live(d) ==
    UNION {{d[i].levels[j].created_at : j \in 1..Len(d[i].levels)} : i \in 1..Len(d)}

Triggered_lt(price, target_price) == price < target_price

\* if current_price <= level.target_price
Triggered(price, target_price) == price <= target_price

AlertRaises_m(ok) == ~ok

\* send_target_hit_alert: does an Exception of send_message escape it?
\* (except Exception: logger.error(...))
AlertRaises(ok) == FALSE

\* What the HTTP request of get_binance_price can yield: status 200 with a
\* price, another status, or an exception.
Responses ==
    {[kind |-> "ok", price |-> p] : p \in Prices}
        \cup {[kind |-> "status", price |-> NoPrice], [kind |-> "error", price |-> NoPrice]}

\* get_binance_price: float(data['price']) on status 200, None otherwise
get_binance_price(resp) == IF resp.kind = "ok" THEN resp.price ELSE NoPrice

----------------------------------------------------------------------------
\* list_levels_command iterates the user's inner dict itself, with an await
\* in the loop body.  The iterator of a dict holds the size of the dict at
\* its creation (used), the number of entries it has yet to yield (len) and
\* its place in the dict's entry table, where a deleted entry leaves a hole:
\* pos is the number of entries of the dict that lie before that place.
NoList == [pc |-> "none", user |-> 0, used |-> 0, len |-> 0, pos |-> 0]

\* the place of key s in the inner dict
IndexOf(lv, s) == CHOOSE i \in 1..Len(lv) : lv[i].symbol = s

\* the iterator l after key s was deleted from the inner dict lv of user u
ListAfterDel(l, u, lv, s) ==
    IF l.pc = "price" /\ l.user = u /\ IndexOf(lv, s) <= l.pos
    THEN [l EXCEPT !.pos = @ - 1]
    ELSE l

\* next() of the iterator l over the inner dict lv: RuntimeError when the
\* size of the dict has changed, the end of the loop when no entry is left,
\* RuntimeError when there is one more entry than the iterator has to yield
ListNext(l, lv) ==
    IF l.used # Len(lv) THEN [NoList EXCEPT !.pc = "raised"]
    ELSE IF l.pos >= Len(lv) THEN NoList
    ELSE IF l.len = 0 THEN [NoList EXCEPT !.pc = "raised"]
    ELSE [l EXCEPT !.pos = @ + 1, !.len = @ - 1]

----------------------------------------------------------------------------
\* asyncio.sleep(300) after a scan, asyncio.sleep(60) after an exception
NormalPeriod == 300
Cooldown == 60

Asleep_normal(pc, err) ==
    [pc |-> "sleep300", err |-> err, pos |-> 0, user |-> 0, snap |-> <<>>, i |-> 0]

Asleep_dead(pc, err) ==
    [pc |-> IF err = "none" THEN pc ELSE "dead", err |-> err, pos |-> 0, user |-> 0,
     snap |-> <<>>, i |-> 0]

\* The state of check_all_levels once it stops running: at an await
\* ("price"), or back in price_monitoring_loop's sleep.
Asleep(pc, err) ==
    [pc |-> pc, err |-> err, pos |-> 0, user |-> 0, snap |-> <<>>, i |-> 0]

\* `for user_id, user_levels in self.user_levels.items()`: next() of the dict
\* iterator raises RuntimeError when the dict's size differs from the size at
\* the iterator's creation, also when it has no entry left; then
\* `list(user_levels.items())`, whose loop body is skipped when it is empty.
RECURSIVE NextUser(_, _, _)
NextUser(d, used, pos) ==
    IF used # Len(d) THEN Asleep("sleep60", "RuntimeError")
    ELSE IF pos >= Len(d) THEN Asleep("sleep300", "none")
    ELSE IF d[pos + 1].levels = <<>> THEN NextUser(d, used, pos + 1)
    ELSE [pc |-> "price", err |-> "none", pos |-> pos + 1, user |-> d[pos + 1].uid,
          snap |-> d[pos + 1].levels, i |-> 1]

\* the next (symbol, level) of the inner list, or the next user
NextEntry(d, used, pos, user, sn, i) ==
    IF i < Len(sn)
    THEN [pc |-> "price", err |-> "none", pos |-> pos, user |-> user, snap |-> sn,
          i |-> i + 1]
    ELSE NextUser(d, used, pos)

\* the monitor's variables after check_all_levels ran on to state r
MonGoes(r) ==
    /\ mon_pc' = r.pc
    /\ last_error' = r.err
    /\ it_pos' = r.pos
    /\ cur_user' = r.user
    /\ snap' = r.snap
    /\ snap_i' = r.i
    /\ it_used' = IF r.pc \in {"sleep300", "sleep60"} THEN 0 ELSE it_used
    /\ running' = IF r.pc \in {"price", "alert"} THEN running ELSE running - 1

\* the inner list of the scan has entries after the current one
EntriesLeft == snap_i < Len(snap)

----------------------------------------------------------------------------
Init ==
    /\ user_levels = <<>>
    /\ monitoring = FALSE
    /\ clock = 1
    /\ adds = {}
    /\ mon_pc = "created"
    /\ it_used = 0
    /\ it_pos = 0
    /\ cur_user = 0
    /\ snap = <<>>
    /\ snap_i = 0
    /\ current_price = NoPrice
    /\ last_error = "none"
    /\ alerts = [l \in LevelIds |-> 0]
    /\ sent = [l \in LevelIds |-> "none"]
    /\ fate = [l \in LevelIds |-> "live"]
    /\ held = FALSE
    /\ tick_failed = FALSE
    /\ skipped = {}
    /\ due = {}
    /\ running = 0
    /\ lst = NoList

Resumes_any(pc) == TRUE

\* price_monitoring_loop is one task: it goes on to the next call of
\* check_all_levels from its creation or from a sleep that has ended, not
\* while `await self.check_all_levels()` is pending.
Resumes(pc) == pc \in {"created", "sleep300", "sleep60"}

\* price_monitoring_loop up to its first await: the first scan starts; and
\* every later scan, when asyncio.sleep(300) or asyncio.sleep(60) returns.
TickStart ==
    /\ Resumes(mon_pc)
    /\ monitoring' = TRUE
    /\ current_price' = NoPrice
    /\ LET r == NextUser(user_levels, Len(user_levels), 0) IN
        /\ mon_pc' = r.pc
        /\ last_error' = r.err
        /\ it_pos' = r.pos
        /\ cur_user' = r.user
        /\ snap' = r.snap
        /\ snap_i' = r.i
        /\ it_used' = IF r.pc = "price" THEN Len(user_levels) ELSE 0
        /\ running' = IF r.pc = "price" THEN running + 1 ELSE running
    /\ tick_failed' = FALSE
    /\ due' = skipped \cap Live(user_levels)
    /\ held' = FALSE
    /\ UNCHANGED <<user_levels, clock, adds, alerts, sent, fate, skipped, lst>>

\* check_all_levels from the return of get_binance_price to the next await:
\* `continue` on None; on a trigger the call of send_target_hit_alert, which
\* runs up to `await send_message`; otherwise on to the next entry.
PriceReturn(resp) ==
    /\ mon_pc = "price"
    /\ LET level == snap[snap_i]
           price == get_binance_price(resp)
           id == level.created_at
       IN
        /\ current_price' = price
        /\ due' = due \ {id}
        /\ skipped' = IF price = NoPrice THEN skipped \cup {id} ELSE skipped \ {id}
        /\ tick_failed' = (tick_failed \/ price = NoPrice)
        /\ IF price # NoPrice /\ Triggered(price, level.target_price)
           THEN /\ mon_pc' = "alert"
                /\ alerts' = [alerts EXCEPT ![id] = @ + 1]
                /\ held' = (id \in Live(user_levels))
                /\ UNCHANGED <<last_error, it_used, it_pos, cur_user, snap, snap_i,
                               running>>
           ELSE /\ MonGoes(NextEntry(user_levels, it_used, it_pos, cur_user, snap, snap_i))
                /\ UNCHANGED <<alerts, held>>
    /\ UNCHANGED <<user_levels, monitoring, clock, adds, sent, fate, lst>>

\* check_all_levels from the return of send_target_hit_alert to the next
\* await: `del self.user_levels[user_id][symbol]`, a KeyError when the key is
\* gone, then on to the next entry.
AlertReturn(ok) ==
    /\ mon_pc = "alert"
    /\ LET level == snap[snap_i]
           lv == LevelsOf(user_levels, cur_user)
       IN
        /\ sent' = [sent EXCEPT ![level.created_at] = IF ok THEN "ok" ELSE "failed"]
        /\ tick_failed' = (tick_failed \/ ~ok)
        /\ IF AlertRaises(ok)
           THEN /\ MonGoes(Asleep("sleep60", "Exception"))
                /\ UNCHANGED <<user_levels, fate, lst>>
           ELSE IF HasSym(lv, level.symbol)
           THEN /\ user_levels' = WithLevels(user_levels, cur_user, Del(lv, level.symbol))
                /\ lst' = ListAfterDel(lst, cur_user, lv, level.symbol)
                /\ fate' = [fate EXCEPT ![Lookup(lv, level.symbol).created_at] = "triggered"]
                /\ MonGoes(NextEntry(user_levels', it_used, it_pos, cur_user, snap, snap_i))
           ELSE /\ MonGoes(Asleep("sleep60", "KeyError"))
                /\ UNCHANGED <<user_levels, fate, lst>>
    /\ held' = FALSE
    /\ UNCHANGED <<monitoring, clock, adds, current_price, alerts, skipped, due>>

\* start_command up to its await
StartCommand(u) ==
    /\ monitoring
    /\ user_levels' = SetDefault(user_levels, u)
    /\ UNCHANGED <<monitoring, clock, adds, mon_vars, alerts, sent, fate, ghost_tick,
                   lst>>

\* the number that tells the next suspended /add handler from the others:
\* its rank among the suspended handlers, the oldest first
FreeTask == Cardinality(adds) + 1

\* the suspended handlers S after one of them ended: the ranks close up
Ended(S) == {[a EXCEPT !.task = Cardinality({b \in S : b.task <= a.task})] : a \in S}

\* a call of add_level_command by user u that is suspended at `at`; raced
\* records that it replaced a level stored after it began
Handler(u, symbol, target_price, at, answer) ==
    [user |-> u, symbol |-> symbol, target_price |-> target_price, began |-> clock,
     at |-> at, task |-> FreeTask, answer |-> answer, raced |-> FALSE]

\* the /add commands that have not reached their store
Undecided == {a \in adds : a.at # "answer"}

\* another command may go on to send its answer
CanAnswer == Cardinality(adds \ Undecided) < MaxReplies

\* a call of add_level_command that is suspended in the reply_text that
\* sends `answer`: of its locals only the answer is still used
Sending(task, answer, raced) ==
    [user |-> 0, symbol |-> "", target_price |-> NoPrice, began |-> 0, at |-> "answer",
     task |-> task, answer |-> answer, raced |-> raced]

\* the suspended commands after command `a` went on to send `answer`
Answers(a, answer, raced) == (adds \ {a}) \cup {Sending(a.task, answer, raced)}

\* add_level_command up to its first await: the user's inner dict is created
\* first; then the answer "Invalid format!" to send when it has not two
\* arguments, the answer "Invalid price!" to send when float(args[1]) raises
\* ValueError, else `await self.get_binance_price(symbol)`.
AddCommand(u, args) ==
    /\ monitoring
    /\ Cardinality(adds) < MaxAdds
    /\ user_levels' = SetDefault(user_levels, u)
    /\ IF Len(args) # 2
       THEN /\ CanAnswer
            /\ adds' = adds \cup {Sending(FreeTask, Answer("usage", NoPrice, FALSE), FALSE)}
       ELSE IF ~FloatOk(args[2])
       THEN /\ CanAnswer
            /\ adds' = adds \cup {Sending(FreeTask, Answer("invalid_price", NoPrice, FALSE),
                                          FALSE)}
       ELSE /\ clock + Cardinality(Undecided) <= MaxLevels
            /\ adds' = adds \cup {Handler(u, Upper(args[1]), Float(args[2]), "lookup",
                                          Answer("none", NoPrice, FALSE))}
    /\ UNCHANGED <<monitoring, clock, mon_vars, alerts, sent, fate, ghost_tick, lst>>

\* `if target_price >= current_price:` sends a warning and returns nothing:
\* does the command stop there?
Rejected(target_price, price) == FALSE

\* add_level_command, lines 153-180: is_update, old_price, the new
\* TargetLevel stored, and the answer to send
StoreLevel(a, warned) ==
    LET lv == LevelsOf(user_levels, a.user)
        is_update == HasSym(lv, a.symbol)
        old_price == IF is_update THEN Lookup(lv, a.symbol).target_price ELSE NoPrice
        level == TargetLevel(a.symbol, a.target_price, clock)
    IN
        /\ CanAnswer
        /\ user_levels' = WithLevels(user_levels, a.user, Store(lv, level))
        /\ clock' = clock + 1
        /\ fate' = IF is_update
                   THEN [fate EXCEPT ![Lookup(lv, a.symbol).created_at] = "replaced"]
                   ELSE fate
        /\ adds' = Answers(a, Answer(IF is_update THEN "updated" ELSE "added",
                                     old_price, warned),
                           is_update /\ Lookup(lv, a.symbol).created_at >= a.began)

\* add_level_command from the return of get_binance_price to its next await:
\* the answer "Invalid symbol" on None; the warning to send when the target
\* is not below the current price; else the store and the answer to send.
AddStore(a, resp) ==
    /\ a \in adds
    /\ a.at = "lookup"
    /\ LET price == get_binance_price(resp) IN
        IF price = NoPrice
        THEN /\ CanAnswer
             /\ adds' = Answers(a, Answer("invalid_symbol", NoPrice, FALSE), FALSE)
             /\ UNCHANGED <<user_levels, clock, fate>>
        ELSE IF Rejected(a.target_price, price)
        THEN /\ CanAnswer
             /\ adds' = Answers(a, Answer("none", NoPrice, TRUE), FALSE)
             /\ UNCHANGED <<user_levels, clock, fate>>
        ELSE IF a.target_price >= price
        THEN /\ adds' = (adds \ {a}) \cup {[a EXCEPT !.at = "warning"]}
             /\ UNCHANGED <<user_levels, clock, fate>>
        ELSE StoreLevel(a, FALSE)
    /\ UNCHANGED <<monitoring, mon_vars, alerts, sent, ghost_tick, lst>>

\* add_level_command from the return of the reply_text that sends the
\* warning: the store and the answer to send; or, when reply_text raised,
\* `except Exception` and its answer "An error occurred", with no store.
AddWarned(a, ok) ==
    /\ a \in adds
    /\ a.at = "warning"
    /\ IF ok
       THEN StoreLevel(a, TRUE)
       ELSE /\ CanAnswer
            /\ adds' = Answers(a, Answer("error", NoPrice, FALSE), FALSE)
            /\ UNCHANGED <<user_levels, clock, fate>>
    /\ UNCHANGED <<monitoring, mon_vars, alerts, sent, ghost_tick, lst>>

\* add_level_command from the return of the reply_text that sends an answer:
\* the command ends; or, when reply_text raised inside the `try`, `except
\* Exception` and its answer "An error occurred".  An exception of the
\* reply_text of an `except` clause leaves the handler.
AddAnswered(a, ok) ==
    /\ a \in adds
    /\ a.at = "answer"
    /\ adds' = IF ok \/ a.answer.kind \in {"error", "invalid_price"}
               THEN Ended(adds \ {a})
               ELSE Answers(a, Answer("error", NoPrice, FALSE), FALSE)
    /\ UNCHANGED <<user_levels, monitoring, clock, mon_vars, alerts, sent, fate,
                   ghost_tick, lst>>

\* remove_level_command with a symbol argument, up to its await: "No levels
\* to remove!" for a user without levels, "No active level found" for an
\* absent symbol, else the pop
RemoveCommand(u, typed) ==
    /\ monitoring
    /\ LET lv == LevelsOf(user_levels, u)
           s == Upper(typed)
       IN
        IF HasUser(user_levels, u) /\ lv # <<>> /\ HasSym(lv, s)
        THEN /\ user_levels' = WithLevels(user_levels, u, Del(lv, s))
             /\ fate' = [fate EXCEPT ![Lookup(lv, s).created_at] = "removed"]
             /\ lst' = ListAfterDel(lst, u, lv, s)
        ELSE UNCHANGED <<user_levels, fate, lst>>
    /\ UNCHANGED <<monitoring, clock, adds, mon_vars, alerts, sent, ghost_tick>>

\* button_callback for "remove_<symbol>", from the return of query.answer():
\* the pop, or "Level not found."
ButtonRemove(u, s) ==
    /\ monitoring
    /\ LET lv == LevelsOf(user_levels, u) IN
        IF HasUser(user_levels, u) /\ HasSym(lv, s)
        THEN /\ user_levels' = WithLevels(user_levels, u, Del(lv, s))
             /\ fate' = [fate EXCEPT ![Lookup(lv, s).created_at] = "removed"]
             /\ lst' = ListAfterDel(lst, u, lv, s)
        ELSE UNCHANGED <<user_levels, fate, lst>>
    /\ UNCHANGED <<monitoring, clock, adds, mon_vars, alerts, sent, ghost_tick>>

\* list_levels_command up to its first await: "no active levels" for a user
\* without levels, else the iterator is created and yields the first entry,
\* whose price is looked up
ListCommand(u) ==
    /\ monitoring
    /\ lst.pc # "price"
    /\ LET lv == LevelsOf(user_levels, u) IN
        lst' = IF ~HasUser(user_levels, u) \/ lv = <<>>
               THEN NoList
               ELSE [pc |-> "price", user |-> u, used |-> Len(lv), len |-> Len(lv) - 1,
                     pos |-> 1]
    /\ UNCHANGED <<user_levels, monitoring, clock, adds, mon_vars, alerts, sent, fate,
                   ghost_tick>>

\* list_levels_command from the return of get_binance_price (whose result
\* only changes the text of the answer) to the next lookup, to the answer
\* after the loop, or to the exception that leaves the handler
ListPriceReturn ==
    /\ lst.pc = "price"
    /\ lst' = ListNext(lst, LevelsOf(user_levels, lst.user))
    /\ UNCHANGED <<user_levels, monitoring, clock, adds, mon_vars, alerts, sent, fate,
                   ghost_tick>>

Next ==
    \/ TickStart
    \/ \E resp \in Responses : PriceReturn(resp)
    \/ \E ok \in BOOLEAN : AlertReturn(ok)
    \/ \E u \in Users : StartCommand(u)
    \/ \E u \in Users, args \in AddArgs : AddCommand(u, args)
    \/ \E a \in adds, resp \in Responses : AddStore(a, resp)
    \/ \E a \in adds, ok \in BOOLEAN : AddWarned(a, ok)
    \/ \E a \in adds, ok \in BOOLEAN : AddAnswered(a, ok)
    \/ \E u \in Users, typed \in TypedSymbols : RemoveCommand(u, typed)
    \/ \E u \in Users, s \in Symbols : ButtonRemove(u, s)
    \/ \E u \in Users : ListCommand(u)
    \/ ListPriceReturn

Spec == Init /\ [][Next]_vars

\* The timer of asyncio.sleep fires, and the awaited get_binance_price and
\* send_target_hit_alert return (with a result or a caught failure).
FairSpec ==
    /\ Spec
    /\ WF_vars(TickStart)
    /\ WF_vars(\E resp \in Responses : PriceReturn(resp))
    /\ WF_vars(\E ok \in BOOLEAN : AlertReturn(ok))

----------------------------------------------------------------------------
\* the (symbol, level) check_all_levels is working on
CurLevel == snap[snap_i]
CurId == CurLevel.created_at

\* the step is one of check_all_levels
MonStep == <<mon_pc, it_pos, snap_i>>' # <<mon_pc, it_pos, snap_i>>

\* C1: at-most-once alert: whatever the interleaving of scans and commands,
\* send_target_hit_alert is called at most once for any one TargetLevel.
C1_AtMostOnceAlert == \A l \in LevelIds : alerts[l] <= 1

\* a second level is being alerted after a first one was alerted and claimed
C1_Witness ==
    /\ mon_pc = "alert"
    /\ \E l \in LevelIds : l # CurId /\ alerts[l] = 1 /\ fate[l] = "triggered"

\* C2: when a manual remove lands after the scan computed trigger = true for
\* an entry the registry held, and before the scan removes it, the notifier
\* is not called for that entry.
C2_RemoveBeatsNotify ==
    (mon_pc = "alert" /\ held /\ fate[CurId] = "removed") => alerts[CurId] = 0

\* C3: evaluate, claim, notify: while the notifier is being invoked for a
\* level, the registry no longer holds that level.
C3_ClaimBeforeNotify == mon_pc = "alert" => CurId \notin Live(user_levels)

\* C4: when the scan removes the entry of (user, symbol), the trigger
\* condition current_price <= target_price holds for the level the registry
\* stores there at that moment.
C4_RemovedLevelTriggered ==
    [][(/\ mon_pc = "alert"
        /\ MonStep
        /\ HasSym(LevelsOf(user_levels, cur_user), CurLevel.symbol)
        /\ ~HasSym(LevelsOf(user_levels', cur_user), CurLevel.symbol))
       => current_price
              <= Lookup(LevelsOf(user_levels, cur_user), CurLevel.symbol).target_price]_vars

\* C5: for an entry the scan processes with an available price: if
\* current_price <= target_price, notify is invoked for it, once, and the
\* entry is gone from the registry when the scan moves on; if current_price >
\* target_price, the registry is left as it is and notify is not called.
C5_TickOutcome ==
    [][/\ ((mon_pc = "price" /\ MonStep /\ current_price' # NoPrice)
            => (IF current_price' <= CurLevel.target_price
                THEN /\ mon_pc' = "alert"
                     /\ alerts' = [alerts EXCEPT ![CurId] = 1]
                ELSE /\ mon_pc' # "alert"
                     /\ alerts' = alerts
                     /\ user_levels' = user_levels))
       /\ ((mon_pc = "alert" /\ MonStep)
            => (/\ ~HasSym(LevelsOf(user_levels', cur_user), CurLevel.symbol)
                /\ alerts' = alerts
                /\ alerts[CurId] = 1))]_vars

\* a scan alerted a level once and removed it, and left alone another level
\* of the same user whose price it found above the target
C5_Witness ==
    /\ mon_pc \in {"sleep300", "sleep60"}
    /\ current_price # NoPrice
    /\ \E l \in LevelIds : fate[l] = "triggered" /\ alerts[l] = 1 /\ sent[l] # "none"
    /\ \E i \in 1..Len(user_levels) : \E j \in 1..Len(user_levels[i].levels) :
          /\ current_price > user_levels[i].levels[j].target_price
          /\ alerts[user_levels[i].levels[j].created_at] = 0

\* C6: an insertion into the registry by a command during a scan does not
\* make the scan raise.
C6_ScanSafe == last_error # "RuntimeError"

\* C7: removing a triggered entry that a command has removed meanwhile raises
\* no error in the scan.
C7_RemoveAbsentNoError == last_error # "KeyError"

\* C8: an entry whose lookup is unavailable in a scan is left in the registry
\* unchanged, without a notify, and, if it is still in the registry, it has
\* been looked up again when the next scan ends.
C8_SkippedAndRetried ==
    [][/\ ((mon_pc = "price" /\ MonStep /\ current_price' = NoPrice)
            => (user_levels' = user_levels /\ alerts' = alerts))
       /\ ((MonStep /\ mon_pc' \in {"sleep300", "sleep60"})
            => (due' \cap Live(user_levels') = {}))]_vars

\* C9: a scan in which a lookup or a send failed is not aborted while entries
\* of it are still to be processed.
C9_FailureDoesNotAbort ==
    [][(tick_failed' /\ mon_pc \in {"price", "alert"} /\ mon_pc' = "sleep60")
       => ~EntriesLeft]_vars

\* C10: a level whose alert failed to be sent is out of the registry when the
\* scan moves on, never comes back, and is never alerted again.
C10_LostNotRetried ==
    \A l \in LevelIds :
        sent[l] = "failed" => (l \notin Live(user_levels) /\ alerts[l] = 1)

\* a later scan is running after the alert of a level failed
C10_Witness ==
    /\ mon_pc = "price"
    /\ ~tick_failed
    /\ \E l \in LevelIds : sent[l] = "failed" /\ fate[l] = "triggered"

----------------------------------------------------------------------------
\* the time price_monitoring_loop is waiting for, 0 when it is not waiting
Waiting ==
    IF mon_pc = "sleep300" THEN NormalPeriod
    ELSE IF mon_pc = "sleep60" THEN Cooldown
    ELSE 0

\* C11: after a scan from which no error escaped the loop waits the normal
\* period, after a scan from which an error escaped it waits the cooldown
\* period; in both cases the next scan can start when the wait is over.
C11_WaitPolicy ==
    /\ (Waiting # 0 /\ last_error = "none") => Waiting = 300
    /\ (Waiting # 0 /\ last_error # "none") => Waiting = 60
    /\ Waiting # 0 => ENABLED TickStart
    /\ (mon_pc \notin {"created", "price", "alert"}) => Waiting # 0

\* the loop waits the cooldown after a KeyError escaped the scan
C11_Witness == Waiting = 60 /\ last_error = "KeyError"

\* price_monitoring_loop is between two scans
Idle == mon_pc \in {"sleep300", "sleep60"}

\* a level is stored
HasLevels == Live(user_levels) # {}

\* C12: the monitor loop has no terminal state: it is idle again and again,
\* also after a scan that raised; whenever it is idle another scan can start;
\* and as long as levels are stored it is again and again inside a scan of
\* them.
C12_LoopNeverEnds ==
    /\ []<>Idle
    /\ [](Idle => ENABLED TickStart)
    /\ []<>(mon_pc = "price" \/ ~HasLevels)

\* a scan is under way after the previous scan raised KeyError: the level
\* that was alerted and had been removed by its user made `del` raise, and
\* the loop is now looking up the price of the other level
C12_Witness ==
    /\ mon_pc = "price"
    /\ fate[CurId] = "live"
    /\ \E l \in LevelIds : alerts[l] = 1 /\ sent[l] # "none" /\ fate[l] = "removed"

----------------------------------------------------------------------------
\* no symbol occurs twice in an inner dict
NoDup(lv) == \A i, j \in 1..Len(lv) : lv[i].symbol = lv[j].symbol => i = j

\* no /add command begins or ends in this step: the suspended handlers keep
\* their ranks
SameTasks == {b.task : b \in adds'} = {b.task : b \in adds}

\* the /add command `a` goes on in this step to send its answer
Decides(a) ==
    /\ a \in adds
    /\ a.at # "answer"
    /\ SameTasks
    /\ \E b \in adds' : b.task = a.task /\ b.at = "answer"

\* the answer it goes on to send
AnswerOf(a) == (CHOOSE b \in adds' : b.task = a.task).answer

\* the /add command `a` stores its level in this step
Stores(a) == Decides(a) /\ clock' = clock + 1

\* the reply_text that sends the answer of the /add command `a` raises in
\* this step, and the command goes on to send "An error occurred"
Fails(a) ==
    /\ a \in adds
    /\ a.at = "answer"
    /\ a.answer.kind # "error"
    /\ SameTasks
    /\ \E b \in adds' : b.task = a.task /\ b.answer.kind = "error"

\* C13: an /add for a (user, symbol) that already has a level never yields
\* two entries: it answers as an update whose previous price is the price
\* stored before, and the stored price becomes its own; this holds also for
\* two /add commands that overlap across their price lookups.
C13_UpsertTwice ==
    [][\A a \in adds : Stores(a) =>
        LET lv == LevelsOf(user_levels, a.user)
            after == LevelsOf(user_levels', a.user)
        IN /\ NoDup(after)
           /\ HasSym(after, a.symbol)
           /\ Lookup(after, a.symbol).target_price = a.target_price
           /\ (HasSym(lv, a.symbol) =>
                  (/\ AnswerOf(a).kind = "updated"
                   /\ AnswerOf(a).old_price = Lookup(lv, a.symbol).target_price
                   /\ Len(after) = Len(lv)))]_vars

\* the later of two overlapping /add commands has replaced the level of the
\* earlier one and answered with the earlier price
C13_Witness ==
    \E a \in adds, u \in Users, sym \in Symbols :
        /\ a.at = "answer"
        /\ a.answer.kind = "updated"
        /\ a.raced
        /\ HasSym(LevelsOf(user_levels, u), sym)
        /\ Lookup(LevelsOf(user_levels, u), sym).created_at = clock - 1
        /\ Lookup(LevelsOf(user_levels, u), sym).target_price # a.answer.old_price

----------------------------------------------------------------------------
\* the inner dict lv has one entry for `symbol`, with target price `price`
OneEntry(lv, symbol, price) ==
    /\ NoDup(lv)
    /\ HasSym(lv, symbol)
    /\ Lookup(lv, symbol).target_price = price

\* C14 as stated: an /add with a positive price always succeeds, whatever
\* the price source returns: when it answers, the user's levels hold
\* exactly one entry for the symbol, with that price.
C14_AlwaysSucceeds ==
    [][\A a \in adds : (Decides(a) /\ a.target_price > 0) =>
          OneEntry(LevelsOf(user_levels', a.user), a.symbol, a.target_price)]_vars

\* C14 amended: an /add with a positive price succeeds when the price source
\* returns a price for the symbol and the warning, if one is due, is sent:
\* the user's levels then hold exactly one entry for the symbol, with that
\* price; when the price source returns no price the command answers
\* "Invalid symbol", when sending the warning fails it answers "An error
\* occurred", and in both cases it changes no level.  When sending the
\* answer itself fails the command answers "An error occurred" and the
\* levels stay as they are, the stored level included.
C14_SucceedsWithPrice ==
    [][\A a \in adds :
          /\ (Decides(a) /\ a.target_price > 0) =>
                IF AnswerOf(a).kind \in {"invalid_symbol", "error"}
                THEN user_levels' = user_levels
                ELSE OneEntry(LevelsOf(user_levels', a.user), a.symbol, a.target_price)
          /\ Fails(a) => user_levels' = user_levels]_vars

\* an /add of a positive price has created a level, which is still there,
\* and is sending "Target Level Added"
C14_Witness ==
    \E a \in adds, u \in Users, sym \in Symbols :
        /\ a.at = "answer"
        /\ a.answer.kind = "added"
        /\ HasSym(LevelsOf(user_levels, u), sym)
        /\ Lookup(LevelsOf(user_levels, u), sym).created_at = clock - 1
        /\ Lookup(LevelsOf(user_levels, u), sym).target_price > 0

\* C15: an /add with a non-positive or non-numeric price is rejected and
\* leaves the registry unchanged: no level with such a price is ever stored.
C15_InvalidRejected ==
    \A i \in 1..Len(user_levels) : \A j \in 1..Len(user_levels[i].levels) :
          user_levels[i].levels[j].target_price > 0

\* the scan alerts the level it looked up as soon as the price is <= target
PlainTrigger ==
    (/\ mon_pc = "price"
     /\ MonStep
     /\ current_price' # NoPrice
     /\ current_price' <= CurLevel.target_price) => mon_pc' = "alert"

\* C16: the trigger is the plain comparison: a level added with a target
\* not below the current price is stored all the same (warned, not
\* rejected), and the scan alerts a level as soon as a lookup returns a
\* price <= its target, whatever earlier lookups returned.
C16_PlainThreshold ==
    [][/\ \A a \in adds : (Decides(a) /\ a.at = "warning") =>
            OneEntry(LevelsOf(user_levels', a.user), a.symbol, a.target_price)
       /\ PlainTrigger]_vars

\* C17: while list_levels_command enumerates a user's levels, an /add, a
\* remove or a removal by the scan on that user's levels does not make the
\* enumeration raise.
C17_ListTolerates == lst.pc # "raised"

----------------------------------------------------------------------------
\* what the registry holds for (u, sym); created_at 0 stands for no entry
Slot(d, u, sym) ==
    IF HasSym(LevelsOf(d, u), sym)
    THEN Lookup(LevelsOf(d, u), sym)
    ELSE TargetLevel(sym, NoPrice, 0)

\* the step leaves every slot other than (u0, s0) as it is
OnlySlot(u0, s0) ==
    \A u \in Users, sym \in Symbols :
        <<u, sym>> # <<u0, s0>> => Slot(user_levels', u, sym) = Slot(user_levels, u, sym)

\* C18: a step of a front-end command changes at most one slot of the
\* registry: an /add that finishes changes at most the slot of its own
\* (user, symbol), and any other command step either removes the entry of
\* one slot or changes no entry at all.
C18_Locality ==
    [][(~MonStep /\ user_levels' # user_levels) =>
        /\ \A a \in adds : Decides(a) => OnlySlot(a.user, a.symbol)
        /\ (\A a \in adds : ~Decides(a)) =>
              \E u0 \in Users, s0 \in Symbols :
                  /\ OnlySlot(u0, s0)
                  /\ Slot(user_levels', u0, s0)
                        \in {Slot(user_levels, u0, s0), TargetLevel(s0, NoPrice, 0)}]_vars

\* a level was removed by its user while an older level was in the registry,
\* which is still there
C18_Witness ==
    \E l, k \in LevelIds :
        /\ k < l
        /\ fate[l] = "removed"
        /\ k \in Live(user_levels)

\* C19: at most one scan is in progress: a scan starts only when the loop
\* is not inside a call of check_all_levels.
C19_OneScan ==
    /\ running <= 1
    /\ running = 1 <=> mon_pc \in {"price", "alert"}

\* a scan is looking up a price after an earlier alert was delivered and its
\* level deleted
C19_Witness ==
    /\ running = 1
    /\ mon_pc = "price"
    /\ \E l \in LevelIds : sent[l] = "ok" /\ fate[l] = "triggered"

====
